---- MODULE Spec2Model ----
(***************************************************************************)
(* A model of vnpy_ib/ib_gateway_jason.py: the IbApi adapter between the   *)
(* synchronous gateway interface and the callback-driven broker client.    *)
(*                                                                          *)
(* Threads of control:                                                      *)
(*   - the receive loop (client.run), which runs each callback handler to  *)
(*     completion before the next one (one action per handler);            *)
(*   - the subscribeRunner threads, one statement per step (wpc);          *)
(*   - the caller thread, atomic for send_order / cancel_order /           *)
(*     subscribe, and one statement per step inside query_history (hpc).   *)
(***************************************************************************)
EXTENDS Integers, Sequences, FiniteSets, TLC

(***************************************************************************)
(* Bounds of the model.                                                    *)
(***************************************************************************)
\* slots for subscribeRunner threads (nextValidId starts one per call)
MaxWorkers == 2
\* total number of requests ever put on subscribeRequest_queue
MaxEnqueue == 2
\* largest order id the broker hands out / the adapter counts up to
MaxOrderId == 3
\* requests the caller thread issues through send_order and cancel_order
MaxCalls == 3
\* callbacks delivered in the order-tracking and the tick scenarios
MaxEvents == 4
\* bars the broker sends for one historical query
MaxBars == 2
\* historical queries the caller makes
MaxQueries == 3

(***************************************************************************)
(* Values.                                                                 *)
(***************************************************************************)
\* Python's None
None == [tag |-> "None"]

\* keys and values of the exchange table
EXCHANGE_VT2IB ==
  [e \in {"SMART", "NYMEX", "COMEX", "GLOBEX", "IDEALPRO", "CME", "CBOT",
          "CBOE", "ICE", "SEHK", "SSE", "SZSE", "HKFE", "CFE", "TSE", "NYSE",
          "NASDAQ", "AMEX", "ARCA", "EDGEA", "ISLAND", "BATS", "IEX",
          "IBKRATS", "OTC", "SGX"} |->
     CASE e = "SSE" -> "SEHKNTL"
       [] e = "SZSE" -> "SEHKSZSE"
       [] e = "OTC" -> "PINK"
       [] OTHER -> e]

\* the field strings int() accepts and the field strings float() accepts
IntStrs == {"50", "1000", "2430"}
FloatStrs == IntStrs \cup {"2430.0", "2430.5"}

\* float(s), written as str() prints the float: float("2430") is 2430.0
float(s) == IF s \in IntStrs
            THEN CASE s = "50" -> "50.0"
                   [] s = "1000" -> "1000.0"
                   [] s = "2430" -> "2430.0"
            ELSE s

\* int(s), written as str() prints the int
int(s) == s

\* SubscribeRequest / OrderRequest symbols are the list symbol.split("-")
Sym_SPY == <<"SPY", "USD", "STK">>
Sym_EUR == <<"EUR", "USD", "CASH">>
Sym_ES == <<"ES", "202002", "USD", "FUT">>
Sym_Short == <<"STK">>
Sym_BadStrike == <<"ES", "202006", "C", "abc", "50", "USD", "FOP">>

Req_SPY == [symbol |-> Sym_SPY, exchange |-> "SMART"]
Req_EUR == [symbol |-> Sym_EUR, exchange |-> "IDEALPRO"]
Req_ES == [symbol |-> Sym_ES, exchange |-> "GLOBEX"]
\* Exchange.LOCAL has no entry in EXCHANGE_VT2IB
Req_Local == [symbol |-> Sym_SPY, exchange |-> "LOCAL"]
\* no currency field: fields[-2] raises IndexError
Req_Short == [symbol |-> Sym_Short, exchange |-> "SMART"]
\* float("abc") raises ValueError
Req_BadStrike == [symbol |-> Sym_BadStrike, exchange |-> "GLOBEX"]

vt_symbol(req) == <<req.symbol, req.exchange>>

(***************************************************************************)
(* generate_ib_contract: [tag |-> "contract", ...] for a contract,         *)
(* [tag |-> "None"] when the IndexError of a missing field is caught, and  *)
(* [tag |-> "ValueError"] when int() or float() of a non-numeric field     *)
(* raises (not caught by the function).                                    *)
(***************************************************************************)
NoContract == None
Raised == [tag |-> "ValueError"]

generate_ib_contract(symbol, exchange) ==
  LET fields == symbol
      n == Len(fields)
      secType == fields[n]
      base == [tag |-> "contract",
               exchange |-> EXCHANGE_VT2IB[exchange], secType |-> secType,
               currency |-> fields[n - 1], symbol |-> fields[1],
               lastTradeDateOrContractMonth |-> "", right |-> "",
               strike |-> "0.0", multiplier |-> ""]
      dated == IF secType \in {"FUT", "OPT", "FOP"}
               THEN [base EXCEPT !.lastTradeDateOrContractMonth = fields[2]]
               ELSE base
  IN  IF n < 2 THEN NoContract
      ELSE IF secType = "FUT"
      THEN IF n = 5
           THEN IF fields[3] \in IntStrs
                THEN [dated EXCEPT !.multiplier = int(fields[3])]
                ELSE Raised
           ELSE dated
      ELSE IF secType \in {"OPT", "FOP"}
      THEN IF n < 4 THEN NoContract
           ELSE IF fields[4] \notin FloatStrs THEN Raised
           ELSE IF n < 5 THEN NoContract
           ELSE IF fields[5] \notin IntStrs THEN Raised
           ELSE [dated EXCEPT !.right = fields[3],
                              !.strike = float(fields[4]),
                              !.multiplier = int(fields[5])]
      ELSE dated

(***************************************************************************)
(* generate_symbol: the fields of the canonical symbol of a contract.      *)
(***************************************************************************)
generate_symbol(ib_contract) ==
  LET f1 == <<ib_contract.symbol>>
      f2 == IF ib_contract.secType \in {"FUT", "OPT", "FOP"}
            THEN Append(f1, ib_contract.lastTradeDateOrContractMonth)
            ELSE f1
      f3 == IF ib_contract.secType \in {"OPT", "FOP"}
            THEN f2 \o <<ib_contract.right, ib_contract.strike,
                         ib_contract.multiplier>>
            ELSE f2
  IN  f3 \o <<ib_contract.currency, ib_contract.secType>>

(***************************************************************************)
(* Tables.                                                                 *)
(***************************************************************************)
STATUS_IB2VT ==
  [s \in {"ApiPending", "PendingSubmit", "PreSubmitted", "Submitted",
          "ApiCancelled", "Cancelled", "Filled", "Inactive"} |->
     CASE s \in {"ApiPending", "PendingSubmit"} -> "SUBMITTING"
       [] s \in {"PreSubmitted", "Submitted"} -> "NOTTRADED"
       [] s \in {"ApiCancelled", "Cancelled"} -> "CANCELLED"
       [] s = "Filled" -> "ALLTRADED"
       [] s = "Inactive" -> "REJECTED"]

ORDERTYPE_VT2IB == [t \in {"LIMIT", "MARKET", "STOP"} |->
                      CASE t = "LIMIT" -> "LMT"
                        [] t = "MARKET" -> "MKT"
                        [] t = "STOP" -> "STP"]

ORDERTYPE_IB2VT == [t \in {"LMT", "MKT", "STP"} |->
                      CASE t = "LMT" -> "LIMIT"
                        [] t = "MKT" -> "MARKET"
                        [] t = "STP" -> "STOP"]

DIRECTION_VT2IB == [d \in {"LONG", "SHORT"} |->
                      IF d = "LONG" THEN "BUY" ELSE "SELL"]

DIRECTION_IB2VT == [a \in {"BUY", "SELL", "BOT", "SLD"} |->
                      IF a \in {"BUY", "BOT"} THEN "LONG" ELSE "SHORT"]

EXCHANGE_IB2VT ==
  [x \in {EXCHANGE_VT2IB[e] : e \in DOMAIN EXCHANGE_VT2IB} |->
     CHOOSE e \in DOMAIN EXCHANGE_VT2IB : EXCHANGE_VT2IB[e] = x]

TICKFIELD_IB2VT ==
  [t \in {0, 1, 2, 3, 4, 5, 6, 7, 8, 9, 14} |->
     CASE t = 0 -> "bid_volume_1"
       [] t = 1 -> "bid_price_1"
       [] t = 2 -> "ask_price_1"
       [] t = 3 -> "ask_volume_1"
       [] t = 4 -> "last_price"
       [] t = 5 -> "last_volume"
       [] t = 6 -> "high_price"
       [] t = 7 -> "low_price"
       [] t = 8 -> "volume"
       [] t = 9 -> "pre_close"
       [] t = 14 -> "open_price"]

\* the products query_history asks MIDPOINT bars for
PRODUCT_IB2VT == [t \in {"STK", "CASH", "CMDTY", "FUT", "OPT", "FOP",
                         "CONTFUT", "IND"} |->
                    CASE t = "STK" -> "EQUITY"
                      [] t = "CASH" -> "FOREX"
                      [] t = "CMDTY" -> "SPOT"
                      [] t \in {"FUT", "CONTFUT"} -> "FUTURES"
                      [] t \in {"OPT", "FOP"} -> "OPTION"
                      [] t = "IND" -> "INDEX"]

(***************************************************************************)
(* State.                                                                  *)
(***************************************************************************)
VARIABLES
  connected,        \* client.isConnected(): the transport is open
  status,           \* IbApi.status
  order_ready,      \* IbApi.order_ready
  data_ready,       \* IbApi.data_ready
  reqid,            \* IbApi.reqid
  orderid,          \* IbApi.orderid
  subscribeRequest_queue,   \* the Queue of SubscribeRequest
  nenq,             \* the Queue's unfinished_tasks: the put() calls so far
  subscribed,       \* dict vt_symbol -> req, as the list of its values
  ticks,            \* dict reqid -> TickData
  tick_exchange,    \* dict reqid -> Exchange
  on_tick,          \* the tick snapshots given to gateway.on_tick, in order
  wpc,              \* position of each subscribeRunner thread
  wreq,             \* each subscribeRunner thread's local req
  calls,            \* the requests issued to the broker client, in order
  orders,           \* dict orderid -> OrderData
  on_order,         \* the order snapshots given to gateway.on_order, in order
  ret,              \* what the caller thread's last finished call returned
  contracts,        \* dict vt_symbol -> ContractData
  shelf,            \* the contracts stored in the ib_contract_data.db file
  history_req,      \* IbApi.history_req
  history_buf,      \* IbApi.history_buf
  history_reqid,    \* IbApi.history_reqid
  history_condition,\* the Condition: its lock and its waiting thread
  notify_log,       \* the request id of each callback that called notify()
  hpc,              \* position of the caller thread inside query_history
  hreq,             \* query_history's local req
  inbox,            \* callbacks in flight from the broker to the receive loop
  delivered,        \* callbacks handled since query_history was last entered
  host,             \* IbApi.host ("" while the attribute is not set)
  port,             \* IbApi.port (0 while the attribute is not set)
  clientid,         \* IbApi.clientid
  account,          \* IbApi.account
  count,            \* IbGateway.count
  transport         \* the client.connect / Thread(client.run).start() /
                    \* client.disconnect calls of the latest connect, close
                    \* or process_timer_event, in order

connVars == <<status, order_ready, data_ready>>
idVars == <<reqid, orderid>>
subVars == <<subscribeRequest_queue, nenq, subscribed>>
tickVars == <<ticks, tick_exchange, on_tick>>
workerVars == <<wpc, wreq>>
orderVars == <<orders, on_order>>
contractVars == <<contracts, shelf>>
settingVars == <<host, port, clientid, account>>
linkVars == <<settingVars, count, transport>>
histVars == <<history_req, history_buf, history_reqid, history_condition,
              notify_log>>
callerVars == <<hpc, hreq>>
envVars == <<connected, inbox, delivered>>
vars == <<connVars, idVars, subVars, tickVars, workerVars, calls, orderVars,
          ret, contractVars, linkVars, histVars, callerVars, envVars>>

Workers == 1..MaxWorkers

\* a TickData as the constructor leaves it; the datetime and name fields are
\* not modelled
TickData(req) ==
  [symbol |-> req.symbol, exchange |-> req.exchange,
   bid_volume_1 |-> 0, bid_price_1 |-> 0, ask_price_1 |-> 0,
   ask_volume_1 |-> 0, last_price |-> 0, last_volume |-> 0,
   high_price |-> 0, low_price |-> 0, volume |-> 0, pre_close |-> 0,
   open_price |-> 0]

\* the stored contract of a request's instrument
ContractData(req) ==
  [symbol |-> req.symbol, exchange |-> req.exchange,
   product |-> PRODUCT_IB2VT[req.symbol[Len(req.symbol)]]]

\* the adapter as IbApi.__init__ leaves it, beside a contract file holding
\* the contracts of file
Constructed(file) ==
  /\ connected = FALSE
  /\ status = FALSE
  /\ order_ready = FALSE
  /\ data_ready = FALSE
  /\ reqid = 0
  /\ orderid = 0
  /\ subscribeRequest_queue = <<>>
  /\ nenq = 0
  /\ subscribed = <<>>
  /\ ticks = <<>>
  /\ tick_exchange = <<>>
  /\ on_tick = <<>>
  /\ wpc = [w \in Workers |-> "none"]
  /\ wreq = [w \in Workers |-> None]
  /\ calls = <<>>
  /\ orders = <<>>
  /\ on_order = <<>>
  /\ ret = [op |-> "none", kind |-> "return", value |-> <<>>]
  /\ contracts = <<>>
  /\ shelf = file
  /\ history_req = None
  /\ history_buf = <<>>
  /\ history_reqid = 0
  /\ history_condition = [locked |-> FALSE, waiter |-> "none"]
  /\ notify_log = <<>>
  /\ hpc = "idle"
  /\ hreq = None
  /\ inbox = <<>>
  /\ delivered = <<>>
  /\ host = ""
  /\ port = 0
  /\ clientid = 0
  /\ account = ""
  /\ count = 0
  /\ transport = <<>>

\* the contract file left by earlier sessions
ContractFile == vt_symbol(Req_SPY) :> ContractData(Req_SPY)

Init == Constructed(ContractFile)

(***************************************************************************)
(* Helpers on Python containers.                                           *)
(***************************************************************************)
\* d[k] = v on a dict modelled as a function
DictSet(d, k, v) == [x \in (DOMAIN d) \cup {k} |-> IF x = k THEN v ELSE d[x]]

\* self.subscribed[req.vt_symbol] = req on the insertion-ordered dict
SubscribedSet(d, req) ==
  IF \E i \in 1..Len(d) : vt_symbol(d[i]) = vt_symbol(req)
  THEN [i \in 1..Len(d) |->
          IF vt_symbol(d[i]) = vt_symbol(req) THEN req ELSE d[i]]
  ELSE Append(d, req)

\* req.vt_symbol in self.subscribed
InSubscribed(d, req) == \E i \in 1..Len(d) : vt_symbol(d[i]) = vt_symbol(req)

(***************************************************************************)
(* The gateway-facing calls of the caller thread.  ret.value is a list:    *)
(* <<>> for "", None and [], <<"IB", n>> for the vt_orderid "IB.n", the    *)
(* bars for a history result, the exception's name for kind "raise".       *)
(***************************************************************************)
\* IbApi.subscribe: put the request on the queue
subscribe(req) ==
  /\ subscribeRequest_queue' = Append(subscribeRequest_queue, req)
  /\ nenq' = nenq + 1
  /\ ret' = [op |-> "subscribe", kind |-> "return", value |-> <<>>]
  /\ UNCHANGED <<connVars, idVars, subscribed, tickVars, workerVars, calls,
                 orderVars, contractVars, linkVars, histVars, callerVars>>

\* the setting dict of IbGateway.connect
Settings == [host : {"127.0.0.1", "tws.lan"}, port : {7497},
             clientid : {1, 2}, account : {"DU1"}]
Setting == [host |-> "127.0.0.1", port |-> 7497, clientid |-> 1,
            account |-> "DU1"]

\* the calls on the transport: client.connect(host, port, clientid) with the
\* start of a receive-loop thread, and client.disconnect()
T_connect(s) == <<<<"connect", s.host, s.port, s.clientid>>, <<"run">>>>
T_disconnect == <<<<"disconnect">>>>

\* a connect without the check of status, which C15 has to tell apart
connect_again(setting, accepted) ==
  /\ ret' = [op |-> "connect", kind |-> "return", value |-> <<>>]
  /\ host' = setting.host
  /\ port' = setting.port
  /\ clientid' = setting.clientid
  /\ account' = setting.account
  /\ transport' = T_connect(setting)
  /\ connected' = (connected \/ accepted)
  /\ UNCHANGED <<connVars, idVars, subVars, tickVars, workerVars, calls,
                 orderVars, contractVars, count, histVars, callerVars>>

\* IbApi.connect; accepted says whether the TWS socket accepts the connection
connect(setting, accepted) ==
  /\ ret' = [op |-> "connect", kind |-> "return", value |-> <<>>]
  /\ IF status
     THEN /\ transport' = <<>>
          /\ UNCHANGED <<connected, settingVars>>
     ELSE /\ host' = setting.host
          /\ port' = setting.port
          /\ clientid' = setting.clientid
          /\ account' = setting.account
          /\ transport' = T_connect(setting)
          /\ connected' = (connected \/ accepted)
  /\ UNCHANGED <<connVars, idVars, subVars, tickVars, workerVars, calls,
                 orderVars, contractVars, count, histVars, callerVars>>

\* a close without the check of status, which C16 has to tell apart
close_unguarded ==
  /\ ret' = [op |-> "close", kind |-> "return", value |-> <<>>]
  /\ status' = FALSE
  /\ transport' = T_disconnect
  /\ connected' = FALSE
  /\ UNCHANGED <<order_ready, data_ready, idVars, subVars, tickVars,
                 workerVars, calls, orderVars, contractVars, settingVars,
                 count, histVars, callerVars>>

\* IbApi.close, with client.disconnect() closing the transport
close ==
  /\ ret' = [op |-> "close", kind |-> "return", value |-> <<>>]
  /\ IF ~status
     THEN /\ transport' = <<>>
          /\ UNCHANGED <<connected, status>>
     ELSE /\ status' = FALSE
          /\ transport' = T_disconnect
          /\ connected' = FALSE
  /\ UNCHANGED <<order_ready, data_ready, idVars, subVars, tickVars,
                 workerVars, calls, orderVars, contractVars, settingVars,
                 count, histVars, callerVars>>

\* a check_connection that reconnects without tearing the session down,
\* which C17 has to tell apart
check_connection_keeping(accepted) ==
  IF connected
  THEN /\ transport' = <<>>
       /\ UNCHANGED <<connected, status>>
  ELSE /\ transport' = T_connect([host |-> host, port |-> port,
                                   clientid |-> clientid])
       /\ connected' = accepted
       /\ UNCHANGED status

\* IbApi.check_connection: what it does to the transport and to status;
\* self.close() is inlined, accepted says whether the TWS socket accepts
\* the connection
check_connection(accepted) ==
  IF connected
  THEN /\ transport' = <<>>
       /\ UNCHANGED <<connected, status>>
  ELSE /\ status' = FALSE
       /\ transport' = (IF status THEN T_disconnect ELSE <<>>)
                          \o T_connect([host |-> host, port |-> port,
                                        clientid |-> clientid])
       /\ connected' = accepted

\* IbGateway.process_timer_event, on the event engine's thread
process_timer_event(accepted) ==
  /\ IF count + 1 < 10
     THEN /\ count' = count + 1
          /\ transport' = <<>>
          /\ UNCHANGED <<connected, status>>
     ELSE /\ count' = 0
          /\ check_connection(accepted)
  /\ UNCHANGED <<order_ready, data_ready, idVars, subVars, tickVars,
                 workerVars, calls, orderVars, ret, contractVars,
                 settingVars, histVars, callerVars>>

\* req.create_order_data(orderid, gateway_name): a new OrderData
create_order_data(req, id) ==
  [orderid |-> id, symbol |-> req.symbol, exchange |-> req.exchange,
   type |-> req.type, direction |-> req.direction, volume |-> req.volume,
   price |-> req.price, traded |-> 0, status |-> "SUBMITTING"]

\* IbApi.send_order
send_order(req) ==
  LET c == generate_ib_contract(req.symbol, req.exchange)
      rejected == /\ ret' = [op |-> "send_order", kind |-> "return",
                             value |-> <<>>]
                  /\ UNCHANGED <<orderid, calls, on_order>>
  IN  /\ IF ~status \/ ~order_ready
         THEN rejected
         ELSE IF req.exchange \notin DOMAIN EXCHANGE_VT2IB
         THEN rejected
         ELSE IF req.type \notin DOMAIN ORDERTYPE_VT2IB
         THEN rejected
         ELSE IF c.tag = "ValueError"
         THEN /\ orderid' = orderid + 1
              /\ ret' = [op |-> "send_order", kind |-> "raise",
                         value |-> <<"ValueError">>]
              /\ UNCHANGED <<calls, on_order>>
         ELSE IF c.tag = "None"
         THEN /\ orderid' = orderid + 1
              /\ ret' = [op |-> "send_order", kind |-> "return",
                         value |-> <<>>]
              /\ UNCHANGED <<calls, on_order>>
         ELSE /\ orderid' = orderid + 1
              /\ calls' = calls \o
                   <<[op |-> "placeOrder", id |-> orderid + 1,
                      req |-> [symbol |-> req.symbol,
                               exchange |-> req.exchange]],
                     [op |-> "reqIds", id |-> 1,
                      req |-> [symbol |-> req.symbol,
                               exchange |-> req.exchange]]>>
              /\ on_order' = Append(on_order,
                                    create_order_data(req, orderid + 1))
              /\ ret' = [op |-> "send_order", kind |-> "return",
                         value |-> <<"IB", orderid + 1>>]
      /\ UNCHANGED <<connVars, reqid, subVars, tickVars, workerVars, orders,
                     contractVars, linkVars, histVars, callerVars>>

\* a cancel_order without the readiness gate, which C1 has to tell apart
cancel_order_ungated(req) ==
  /\ ret' = [op |-> "cancel_order", kind |-> "return", value |-> <<>>]
  /\ calls' = Append(calls, [op |-> "cancelOrder", id |-> req.orderid,
                             req |-> [symbol |-> req.symbol,
                                      exchange |-> req.exchange]])
  /\ UNCHANGED <<connVars, idVars, subVars, tickVars, workerVars, orderVars,
                 contractVars, linkVars, histVars, callerVars>>

\* IbApi.cancel_order
cancel_order(req) ==
  /\ ret' = [op |-> "cancel_order", kind |-> "return", value |-> <<>>]
  /\ IF ~status \/ ~order_ready
     THEN UNCHANGED calls
     ELSE calls' = Append(calls, [op |-> "cancelOrder", id |-> req.orderid,
                                  req |-> [symbol |-> req.symbol,
                                           exchange |-> req.exchange]])
  /\ UNCHANGED <<connVars, idVars, subVars, tickVars, workerVars, orderVars,
                 contractVars, linkVars, histVars, callerVars>>

(***************************************************************************)
(* Callback handlers, run by the receive loop.                             *)
(***************************************************************************)
\* a connectAck that leaves order_ready as it finds it, which C18 has to
\* tell apart
connectAck_keeping ==
  /\ status' = TRUE
  /\ contracts' = shelf
  /\ data_ready' = FALSE
  /\ UNCHANGED <<order_ready, idVars, subVars, tickVars,
                 workerVars, calls, orderVars, ret, shelf,
                 linkVars, histVars,
                 callerVars>>

\* connectAck, with load_contract_data reading the contract file
connectAck ==
  /\ status' = TRUE
  /\ contracts' = shelf
  /\ data_ready' = FALSE
  /\ order_ready' = FALSE
  /\ UNCHANGED <<idVars, subVars, tickVars,
                 workerVars, calls, orderVars, ret, shelf, linkVars, histVars,
                 callerVars>>

connectionClosed ==
  /\ status' = FALSE
  /\ UNCHANGED <<order_ready, data_ready, idVars,
                 subVars, tickVars, workerVars, calls, orderVars, ret,
                 contractVars, linkVars, histVars, callerVars>>

\* reqs = list(self.subscribed.values()); self.subscribed.clear();
\* for req in reqs: self.subscribe(req)
Resubscribe ==
  /\ subscribeRequest_queue' = subscribeRequest_queue \o subscribed
  /\ nenq' = nenq + Len(subscribed)
  /\ subscribed' = <<>>

\* Thread(target=self.subscribeRunner).start(), in the first free slot
StartWorker ==
  \E w \in Workers :
    /\ wpc[w] = "none"
    /\ \A v \in Workers : v < w => wpc[v] # "none"
    /\ wpc' = [wpc EXCEPT ![w] = "while"]
    /\ wreq' = [wreq EXCEPT ![w] = None]

nextValidId(orderId) ==
  /\ orderid' = IF orderid = 0 THEN orderId ELSE orderid
  /\ order_ready' = TRUE
  /\ data_ready' = TRUE
  /\ Resubscribe
  /\ StartWorker
  /\ UNCHANGED <<status, reqid, tickVars, calls,
                 orderVars, ret, contractVars, linkVars, histVars, callerVars>>

\* history_condition.acquire(); notify(); release() in a callback carrying
\* reqId: it waits for the lock, and wakes the thread waiting, if any
Notify(reqId) ==
  /\ ~history_condition.locked
  /\ history_condition' =
       [history_condition EXCEPT
          !.waiter = IF @ = "waiting" THEN "notified" ELSE @]
  /\ notify_log' = Append(notify_log, reqId)

\* an error whose code 1102 re-enqueues the tracked requests as code 1101
\* does, which C11 has to tell apart
error_resubscribing(reqId, errorCode) ==
  /\ IF reqId = history_reqid /\ errorCode \notin 2000..2999
     THEN Notify(reqId)
     ELSE UNCHANGED <<history_condition, notify_log>>
  /\ CASE errorCode = 1100 ->
            /\ order_ready' = FALSE
            /\ data_ready' = FALSE
            /\ UNCHANGED subVars
       [] errorCode \in {1101, 1102} ->
            /\ order_ready' = TRUE
            /\ data_ready' = TRUE
            /\ Resubscribe
       [] OTHER ->
            UNCHANGED <<order_ready, data_ready, subVars>>
  /\ UNCHANGED <<status, idVars, tickVars, workerVars,
                 calls, orderVars, ret, contractVars,
                 linkVars, history_req,
                 history_buf, history_reqid, callerVars>>

error(reqId, errorCode) ==
  /\ IF reqId = history_reqid /\ errorCode \notin 2000..2999
     THEN Notify(reqId)
     ELSE UNCHANGED <<history_condition, notify_log>>
  /\ CASE errorCode = 1100 ->
            /\ order_ready' = FALSE
            /\ data_ready' = FALSE
            /\ UNCHANGED subVars
       [] errorCode = 1101 ->
            /\ order_ready' = TRUE
            /\ data_ready' = TRUE
            /\ Resubscribe
       [] errorCode = 1102 ->
            /\ order_ready' = TRUE
            /\ data_ready' = TRUE
            /\ UNCHANGED subVars
       [] OTHER ->
            UNCHANGED <<order_ready, data_ready, subVars>>
  /\ UNCHANGED <<status, idVars, tickVars, workerVars,
                 calls, orderVars, ret, contractVars, linkVars, history_req,
                 history_buf, history_reqid, callerVars>>

\* the TickData fields written by tickPrice and tickSize
SetField(tick, name, v) == [tick EXCEPT ![name] = v]

\* round((bid + ask) / 2, 5); prices are counted in halves of a price unit,
\* so the midpoint of two delivered prices is exact
Midpoint(bid, ask) == (bid + ask) \div 2

tickPrice(reqId, tickType, price) ==
  /\ IF reqId \notin DOMAIN ticks \/ tickType \notin DOMAIN TICKFIELD_IB2VT
     THEN UNCHANGED ticks
     ELSE LET tick == SetField(ticks[reqId], TICKFIELD_IB2VT[tickType], price)
              exchange == tick_exchange[reqId]
              synth == /\ (exchange = "IDEALPRO"
                             \/ \E i \in 1..Len(tick.symbol) :
                                   tick.symbol[i] = "CMDTY")
                       /\ tick.bid_price_1 # 0
                       /\ tick.ask_price_1 # 0
          IN  ticks' = [ticks EXCEPT ![reqId] =
                          IF synth
                          THEN SetField(tick, "last_price",
                                        Midpoint(tick.bid_price_1,
                                                 tick.ask_price_1))
                          ELSE tick]
  /\ UNCHANGED <<connVars, idVars, subVars, tick_exchange, on_tick,
                 workerVars, calls, orderVars, ret, contractVars,
                 linkVars, histVars,
                 callerVars>>

\* a tickSize that updates the tick and emits nothing, which C8 has to tell
\* apart
tickSize_silent(reqId, tickType, size) ==
  /\ IF reqId \notin DOMAIN ticks \/ tickType \notin DOMAIN TICKFIELD_IB2VT
     THEN UNCHANGED ticks
     ELSE ticks' = [ticks EXCEPT ![reqId] =
                      SetField(ticks[reqId], TICKFIELD_IB2VT[tickType], size)]
  /\ UNCHANGED <<connVars, idVars, subVars, tick_exchange, on_tick,
                 workerVars, calls, orderVars, ret, contractVars,
                 linkVars, histVars,
                 callerVars>>

tickSize(reqId, tickType, size) ==
  /\ IF reqId \notin DOMAIN ticks \/ tickType \notin DOMAIN TICKFIELD_IB2VT
     THEN UNCHANGED <<ticks, on_tick>>
     ELSE LET tick == SetField(ticks[reqId], TICKFIELD_IB2VT[tickType], size)
          IN  /\ ticks' = [ticks EXCEPT ![reqId] = tick]
              /\ on_tick' = Append(on_tick, tick)
  /\ UNCHANGED <<connVars, idVars, subVars, tick_exchange, workerVars, calls,
                 orderVars, ret, contractVars, linkVars, histVars, callerVars>>

\* an orderStatus that makes a record for an order id that has none, which
\* C20 has to tell apart
orderStatus_recording(orderId, st, filled) ==
  /\ LET old == IF orderId \in DOMAIN orders
                THEN orders[orderId]
                ELSE [orderid |-> orderId, symbol |-> <<>>,
                      exchange |-> "SMART", type |-> "LIMIT",
                      direction |-> "LONG", volume |-> 0, price |-> 0,
                      traded |-> 0, status |-> "SUBMITTING"]
         order == [old EXCEPT
                     !.traded = filled,
                     !.status = IF st \in DOMAIN STATUS_IB2VT
                                THEN STATUS_IB2VT[st] ELSE @]
     IN  /\ orders' = DictSet(orders, orderId, order)
         /\ on_order' = Append(on_order, order)
  /\ UNCHANGED <<connVars, idVars, subVars, tickVars, workerVars, calls, ret,
                 contractVars, linkVars, histVars, callerVars>>

\* an orderStatus that takes an unmapped status string as None, which C9 has
\* to tell apart
orderStatus_unmapped(orderId, st, filled) ==
  /\ IF orderId \notin DOMAIN orders
     THEN UNCHANGED orderVars
     ELSE LET order == [orders[orderId] EXCEPT
                          !.traded = filled,
                          !.status = IF st \in DOMAIN STATUS_IB2VT
                                     THEN STATUS_IB2VT[st] ELSE "None"]
          IN  /\ orders' = [orders EXCEPT ![orderId] = order]
              /\ on_order' = Append(on_order, order)
  /\ UNCHANGED <<connVars, idVars, subVars, tickVars, workerVars, calls, ret,
                 contractVars, linkVars, histVars, callerVars>>

orderStatus(orderId, st, filled) ==
  /\ IF orderId \notin DOMAIN orders
     THEN UNCHANGED orderVars
     ELSE LET order == [orders[orderId] EXCEPT
                          !.traded = filled,
                          !.status = IF st \in DOMAIN STATUS_IB2VT
                                     THEN STATUS_IB2VT[st] ELSE @]
          IN  /\ orders' = [orders EXCEPT ![orderId] = order]
              /\ on_order' = Append(on_order, order)
  /\ UNCHANGED <<connVars, idVars, subVars, tickVars, workerVars, calls, ret,
                 contractVars, linkVars, histVars, callerVars>>

openOrder(orderId, ib_contract, ib_order) ==
  LET type == ORDERTYPE_IB2VT[ib_order.orderType]
      order == [orderid |-> orderId,
                symbol |-> generate_symbol(ib_contract),
                exchange |-> IF ib_contract.exchange \in DOMAIN EXCHANGE_IB2VT
                             THEN EXCHANGE_IB2VT[ib_contract.exchange]
                             ELSE "SMART",
                type |-> type,
                direction |-> DIRECTION_IB2VT[ib_order.action],
                volume |-> ib_order.totalQuantity,
                price |-> CASE type = "LIMIT" -> ib_order.lmtPrice
                            [] type = "STOP" -> ib_order.auxPrice
                            [] OTHER -> 0,
                traded |-> 0, status |-> "SUBMITTING"]
  IN  /\ orders' = DictSet(orders, orderId, order)
      /\ UNCHANGED <<connVars, idVars, subVars, tickVars, workerVars, calls,
                     on_order, ret, contractVars,
                     linkVars, histVars, callerVars>>

\* a BarData of historicalData; the date is carried as it is
BarData(req, ib_bar) ==
  [symbol |-> req.symbol, exchange |-> req.exchange, date |-> ib_bar.date,
   volume |-> IF ib_bar.volume < 0 THEN 0 ELSE ib_bar.volume]

\* historicalData; with no history_req, self.history_req.symbol raises and
\* nothing is appended
historicalData(reqId, ib_bar) ==
  /\ IF history_req = None
     THEN UNCHANGED history_buf
     ELSE history_buf' = Append(history_buf, BarData(history_req, ib_bar))
  /\ UNCHANGED <<connVars, idVars, subVars, tickVars, workerVars, calls,
                 orderVars, ret, contractVars,
                 linkVars, history_req, history_reqid,
                 history_condition, notify_log, callerVars>>

historicalDataEnd(reqId) ==
  /\ Notify(reqId)
  /\ UNCHANGED <<connVars, idVars, subVars, tickVars, workerVars, calls,
                 orderVars, ret, contractVars,
                 linkVars, history_req, history_buf,
                 history_reqid, callerVars>>

(***************************************************************************)
(* subscribeRunner, one statement per step.                                *)
(***************************************************************************)
Goto(w, pc) == wpc' = [wpc EXCEPT ![w] = pc]

\* while self.status:
W_while(w) ==
  /\ wpc[w] = "while"
  /\ IF status
     THEN Goto(w, "if_status") /\ UNCHANGED wreq
     ELSE Goto(w, "none") /\ wreq' = [wreq EXCEPT ![w] = None]
  /\ UNCHANGED <<connVars, idVars, subVars, tickVars, calls, orderVars, ret,
                 contractVars, linkVars, histVars, callerVars>>

\* if not self.status: continue
W_if_status(w) ==
  /\ wpc[w] = "if_status"
  /\ Goto(w, IF status THEN "if_ready" ELSE "while")
  /\ UNCHANGED <<connVars, idVars, subVars, tickVars, wreq, calls, orderVars,
                 ret, contractVars, linkVars, histVars, callerVars>>

\* if not self.data_ready: continue
W_if_ready(w) ==
  /\ wpc[w] = "if_ready"
  /\ Goto(w, IF data_ready THEN "get" ELSE "while")
  /\ UNCHANGED <<connVars, idVars, subVars, tickVars, wreq, calls, orderVars,
                 ret, contractVars, linkVars, histVars, callerVars>>

\* the get of line 857 without its timeout: the worker sleeps on an empty
\* queue
W_get_blocking(w) ==
  /\ wpc[w] = "get"
  /\ subscribeRequest_queue # <<>>
  /\ subscribeRequest_queue' = Tail(subscribeRequest_queue)
  /\ wreq' = [wreq EXCEPT ![w] = Head(subscribeRequest_queue)]
  /\ Goto(w, IF Head(subscribeRequest_queue).exchange
                  \in DOMAIN EXCHANGE_VT2IB
             THEN "dedup" ELSE "while")
  /\ UNCHANGED <<connVars, idVars, nenq, subscribed, tickVars, calls,
                 orderVars, ret, contractVars, linkVars, histVars, callerVars>>

\* req = self.subscribeRequest_queue.get(block=True, timeout=1), Empty after
\* the timeout; then the check of req.exchange against EXCHANGE_VT2IB
W_get(w) ==
  /\ wpc[w] = "get"
  /\ IF subscribeRequest_queue = <<>>
     THEN /\ Goto(w, "while")
          /\ UNCHANGED <<subscribeRequest_queue, wreq>>
     ELSE /\ subscribeRequest_queue' = Tail(subscribeRequest_queue)
          /\ wreq' = [wreq EXCEPT ![w] = Head(subscribeRequest_queue)]
          /\ Goto(w, IF Head(subscribeRequest_queue).exchange
                          \in DOMAIN EXCHANGE_VT2IB
                     THEN "dedup" ELSE "while")
  /\ UNCHANGED <<connVars, idVars, nenq, subscribed, tickVars, calls,
                 orderVars, ret, contractVars, linkVars, histVars, callerVars>>

\* if req.vt_symbol in self.subscribed: continue
W_dedup(w) ==
  /\ wpc[w] = "dedup"
  /\ Goto(w, IF InSubscribed(subscribed, wreq[w]) THEN "while" ELSE "track")
  /\ UNCHANGED <<connVars, idVars, subVars, tickVars, wreq, calls, orderVars,
                 ret, contractVars, linkVars, histVars, callerVars>>

\* self.subscribed[req.vt_symbol] = req; then generate_ib_contract, whose
\* ValueError ends the thread and whose None skips the request
W_track(w) ==
  /\ wpc[w] = "track"
  /\ subscribed' = SubscribedSet(subscribed, wreq[w])
  /\ LET c == generate_ib_contract(wreq[w].symbol, wreq[w].exchange)
     IN  Goto(w, IF c.tag = "ValueError" THEN "none"
                 ELSE IF c.tag = "None" THEN "while" ELSE "inc1")
  /\ UNCHANGED <<connVars, idVars, subscribeRequest_queue, nenq, tickVars,
                 wreq, calls, orderVars, ret, contractVars, linkVars, histVars,
                 callerVars>>

\* self.reqid += 1
W_inc1(w) ==
  /\ wpc[w] = "inc1"
  /\ reqid' = reqid + 1
  /\ Goto(w, "reqCD")
  /\ UNCHANGED <<connVars, orderid, subVars, tickVars, wreq, calls,
                 orderVars, ret, contractVars, linkVars, histVars, callerVars>>

\* self.client.reqContractDetails(self.reqid, ib_contract)
W_reqCD(w) ==
  /\ wpc[w] = "reqCD"
  /\ calls' = Append(calls, [op |-> "reqContractDetails", id |-> reqid,
                             req |-> wreq[w]])
  /\ Goto(w, "inc2")
  /\ UNCHANGED <<connVars, idVars, subVars, tickVars, wreq, orderVars, ret,
                 contractVars, linkVars, histVars, callerVars>>

\* self.reqid += 1
W_inc2(w) ==
  /\ wpc[w] = "inc2"
  /\ reqid' = reqid + 1
  /\ Goto(w, "reqMD")
  /\ UNCHANGED <<connVars, orderid, subVars, tickVars, wreq, calls,
                 orderVars, ret, contractVars, linkVars, histVars, callerVars>>

\* self.client.reqMktData(self.reqid, ib_contract, "", False, False, [])
W_reqMD(w) ==
  /\ wpc[w] = "reqMD"
  /\ calls' = Append(calls, [op |-> "reqMktData", id |-> reqid,
                             req |-> wreq[w]])
  /\ Goto(w, "tick")
  /\ UNCHANGED <<connVars, idVars, subVars, tickVars, wreq, orderVars, ret,
                 contractVars, linkVars, histVars, callerVars>>

\* self.ticks[self.reqid] = tick
W_tick(w) ==
  /\ wpc[w] = "tick"
  /\ ticks' = DictSet(ticks, reqid, TickData(wreq[w]))
  /\ Goto(w, "texch")
  /\ UNCHANGED <<connVars, idVars, subVars, tick_exchange, on_tick, wreq,
                 calls, orderVars, ret, contractVars,
                 linkVars, histVars, callerVars>>

\* self.tick_exchange[self.reqid] = req.exchange
W_texch(w) ==
  /\ wpc[w] = "texch"
  /\ tick_exchange' = DictSet(tick_exchange, reqid, wreq[w].exchange)
  /\ Goto(w, "while")
  /\ UNCHANGED <<connVars, idVars, subVars, ticks, on_tick, wreq, calls,
                 orderVars, ret, contractVars, linkVars, histVars, callerVars>>

subscribeRunner(w) ==
  \/ W_while(w)
  \/ W_if_status(w)
  \/ W_if_ready(w)
  \/ W_get(w)
  \/ W_dedup(w)
  \/ W_track(w)
  \/ W_inc1(w)
  \/ W_reqCD(w)
  \/ W_inc2(w)
  \/ W_reqMD(w)
  \/ W_tick(w)
  \/ W_texch(w)

(***************************************************************************)
(* query_history on the caller thread, one statement per step.             *)
(***************************************************************************)
\* contract = self.contracts[req.vt_symbol], a KeyError for an unknown
\* symbol; then self.history_req = req
Q_begin(req) ==
  /\ hpc = "idle"
  /\ IF vt_symbol(req) \in DOMAIN contracts
     THEN /\ history_req' = req
          /\ hreq' = req
          /\ hpc' = "inc"
          /\ UNCHANGED ret
     ELSE /\ ret' = [op |-> "query_history", kind |-> "raise",
                     value |-> <<"KeyError">>]
          /\ UNCHANGED <<history_req, hreq, hpc>>
  /\ UNCHANGED <<connVars, idVars, subVars, tickVars, workerVars, calls,
                 orderVars, contractVars, linkVars, history_buf, history_reqid,
                 history_condition, notify_log>>

\* self.reqid += 1; then generate_ib_contract, whose ValueError leaves the
\* call
Q_inc ==
  /\ hpc = "inc"
  /\ reqid' = reqid + 1
  /\ IF generate_ib_contract(hreq.symbol, hreq.exchange).tag = "ValueError"
     THEN /\ ret' = [op |-> "query_history", kind |-> "raise",
                     value |-> <<"ValueError">>]
          /\ hpc' = "idle"
          /\ hreq' = None
     ELSE /\ hpc' = "setid"
          /\ UNCHANGED <<ret, hreq>>
  /\ UNCHANGED <<connVars, orderid, subVars, tickVars, workerVars, calls,
                 orderVars, contractVars, linkVars, histVars>>

\* self.history_reqid = self.reqid
Q_setid ==
  /\ hpc = "setid"
  /\ history_reqid' = reqid
  /\ hpc' = "send"
  /\ UNCHANGED <<connVars, idVars, subVars, tickVars, workerVars, calls,
                 orderVars, ret, contractVars,
                 linkVars, history_req, history_buf,
                 history_condition, notify_log, hreq>>

\* self.client.reqHistoricalData(self.reqid, ...)
Q_send ==
  /\ hpc = "send"
  /\ calls' = Append(calls, [op |-> "reqHistoricalData", id |-> reqid,
                             req |-> hreq])
  /\ hpc' = "acquire"
  /\ UNCHANGED <<connVars, idVars, subVars, tickVars, workerVars, orderVars,
                 ret, contractVars, linkVars, histVars, hreq>>

\* self.history_condition.acquire()
Q_acquire ==
  /\ hpc = "acquire"
  /\ ~history_condition.locked
  /\ history_condition' = [history_condition EXCEPT !.locked = TRUE]
  /\ hpc' = "wait"
  /\ UNCHANGED <<connVars, idVars, subVars, tickVars, workerVars, calls,
                 orderVars, ret, contractVars,
                 linkVars, history_req, history_buf,
                 history_reqid, notify_log, hreq>>

\* self.history_condition.wait(): release the lock and sleep
Q_wait ==
  /\ hpc = "wait"
  /\ history_condition' = [locked |-> FALSE, waiter |-> "waiting"]
  /\ hpc' = "waiting"
  /\ UNCHANGED <<connVars, idVars, subVars, tickVars, workerVars, calls,
                 orderVars, ret, contractVars,
                 linkVars, history_req, history_buf,
                 history_reqid, notify_log, hreq>>

\* wait() returns once notified, with the lock taken again
Q_wake ==
  /\ hpc = "waiting"
  /\ history_condition.waiter = "notified"
  /\ ~history_condition.locked
  /\ history_condition' = [locked |-> TRUE, waiter |-> "none"]
  /\ hpc' = "release"
  /\ UNCHANGED <<connVars, idVars, subVars, tickVars, workerVars, calls,
                 orderVars, ret, contractVars,
                 linkVars, history_req, history_buf,
                 history_reqid, notify_log, hreq>>

\* self.history_condition.release()
Q_release ==
  /\ hpc = "release"
  /\ history_condition' = [history_condition EXCEPT !.locked = FALSE]
  /\ hpc' = "swap"
  /\ UNCHANGED <<connVars, idVars, subVars, tickVars, workerVars, calls,
                 orderVars, ret, contractVars,
                 linkVars, history_req, history_buf,
                 history_reqid, notify_log, hreq>>

\* history = self.history_buf; self.history_buf = []
Q_swap ==
  /\ hpc = "swap"
  /\ ret' = [op |-> "query_history", kind |-> "pending",
             value |-> history_buf]
  /\ history_buf' = <<>>
  /\ hpc' = "clear"
  /\ UNCHANGED <<connVars, idVars, subVars, tickVars, workerVars, calls,
                 orderVars, contractVars, linkVars, history_req, history_reqid,
                 history_condition, notify_log, hreq>>

\* self.history_req = None; return history
Q_return ==
  /\ hpc = "clear"
  /\ history_req' = None
  /\ ret' = [ret EXCEPT !.kind = "return"]
  /\ hpc' = "idle"
  /\ hreq' = None
  /\ UNCHANGED <<connVars, idVars, subVars, tickVars, workerVars, calls,
                 orderVars, contractVars, linkVars, history_buf, history_reqid,
                 history_condition, notify_log>>

(***************************************************************************)
(* The environment: the caller of the gateway and the broker.  A callback  *)
(* in flight is a record of inbox; at says where the caller thread stood   *)
(* inside query_history when the callback was handled.                     *)
(***************************************************************************)
NoBar == [date |-> 0, volume |-> 0]
Blank == [cb |-> "", reqId |-> 0, code |-> 0, bar |-> NoBar, st |-> "",
          n |-> 0, at |-> "idle"]

M_connectAck == [Blank EXCEPT !.cb = "connectAck"]
M_nextValidId(orderId) == [Blank EXCEPT !.cb = "nextValidId", !.reqId = orderId]
M_error(reqId, errorCode) ==
  [Blank EXCEPT !.cb = "error", !.reqId = reqId, !.code = errorCode]
M_historicalData(reqId, ib_bar) ==
  [Blank EXCEPT !.cb = "historicalData", !.reqId = reqId, !.bar = ib_bar]
M_historicalDataEnd(reqId) ==
  [Blank EXCEPT !.cb = "historicalDataEnd", !.reqId = reqId]
M_openOrder(orderId) == [Blank EXCEPT !.cb = "openOrder", !.reqId = orderId]
M_orderStatus(orderId, st, filled) ==
  [Blank EXCEPT !.cb = "orderStatus", !.reqId = orderId, !.st = st,
                !.n = filled]
M_tickPrice(reqId, tickType, price) ==
  [Blank EXCEPT !.cb = "tickPrice", !.reqId = reqId, !.code = tickType,
                !.n = price]
M_tickSize(reqId, tickType, size) ==
  [Blank EXCEPT !.cb = "tickSize", !.reqId = reqId, !.code = tickType,
                !.n = size]

\* the receive loop takes the next callback in flight
Take == /\ inbox' = Tail(inbox)
        /\ UNCHANGED <<connected, delivered>>

\* the same, recording the callback as handled
TakeLogged ==
  /\ inbox' = Tail(inbox)
  /\ delivered' = Append(delivered, [Head(inbox) EXCEPT !.at = hpc])
  /\ UNCHANGED connected

Next_is(cb) == inbox # <<>> /\ Head(inbox).cb = cb

FreeSlot == \E w \in Workers : wpc[w] = "none"

\* the subscribe requests of the caller
SubReqs == {Req_SPY, Req_EUR, Req_Local, Req_Short, Req_BadStrike}

(***************************************************************************)
(* Connection, subscription and the workers, with callbacks arriving at    *)
(* any time while the transport is open.                                   *)
(***************************************************************************)
Subscribe ==
  \E req \in SubReqs :
    /\ nenq < MaxEnqueue
    /\ subscribe(req)
    /\ UNCHANGED envVars

\* the broker answers an accepted connection with connectAck
Connect ==
  \E accepted \in BOOLEAN :
    /\ inbox = <<>>
    /\ connect(Setting, accepted)
    /\ inbox' = IF ~status /\ accepted THEN <<M_connectAck>> ELSE inbox
    /\ UNCHANGED delivered

\* a disconnect drops the callbacks in flight
Close ==
  /\ close
  /\ inbox' = IF status THEN <<>> ELSE inbox
  /\ UNCHANGED delivered

ConnectAck ==
  /\ Next_is("connectAck")
  /\ connectAck
  /\ Take

\* the transport is lost
ConnectionClosed ==
  /\ connected
  /\ connectionClosed
  /\ connected' = FALSE
  /\ inbox' = <<>>
  /\ UNCHANGED delivered

NextValidId ==
  /\ connected /\ inbox = <<>>
  /\ FreeSlot
  /\ nenq + Len(subscribed) <= MaxEnqueue
  /\ nextValidId(1)
  /\ UNCHANGED envVars

Error ==
  \E errorCode \in {1100, 1101, 1102} :
    /\ connected /\ inbox = <<>>
    /\ nenq + Len(subscribed) <= MaxEnqueue
    /\ error(0 - 1, errorCode)
    /\ UNCHANGED envVars

Worker(w) == subscribeRunner(w) /\ UNCHANGED envVars

NextSub ==
  \/ Subscribe
  \/ Connect
  \/ Close
  \/ ConnectAck
  \/ ConnectionClosed
  \/ NextValidId
  \/ Error
  \/ \E w \in Workers : Worker(w)

SpecSub == Init /\ [][NextSub]_vars

(***************************************************************************)
(* The handshake with requests queued before it: the caller subscribes     *)
(* only while data_ready is false, the connection stays up, and the        *)
(* worker threads are scheduled fairly.                                    *)
(***************************************************************************)
QueuedReqs == {Req_SPY, Req_BadStrike}

SubscribeEarly ==
  \E req \in QueuedReqs :
    /\ ~data_ready
    /\ nenq < MaxEnqueue
    /\ subscribe(req)
    /\ UNCHANGED envVars

ConnectUp ==
  /\ inbox = <<>>
  /\ connect(Setting, TRUE)
  /\ inbox' = IF ~status THEN <<M_connectAck>> ELSE inbox
  /\ UNCHANGED delivered

NextQueued ==
  \/ SubscribeEarly
  \/ ConnectUp
  \/ ConnectAck
  \/ NextValidId
  \/ \E w \in Workers : Worker(w)

SpecQueued ==
  /\ Init
  /\ [][NextQueued]_vars
  /\ \A w \in Workers : WF_vars(Worker(w))

(***************************************************************************)
(* An established session: connected, handshake done, Req_SPY and Req_EUR  *)
(* subscribed by the first worker, msgs in flight.                         *)
(***************************************************************************)
\* the broker calls the first worker made for the two subscriptions
TrackingCalls ==
  <<[op |-> "reqContractDetails", id |-> 1, req |-> Req_SPY],
    [op |-> "reqMktData", id |-> 2, req |-> Req_SPY],
    [op |-> "reqContractDetails", id |-> 3, req |-> Req_EUR],
    [op |-> "reqMktData", id |-> 4, req |-> Req_EUR]>>

Tracking(msgs) ==
  /\ connected = TRUE
  /\ status = TRUE
  /\ order_ready = TRUE
  /\ data_ready = TRUE
  /\ reqid = Len(TrackingCalls)
  /\ orderid = 1
  /\ subscribeRequest_queue = <<>>
  /\ nenq = 2
  /\ subscribed = <<Req_SPY, Req_EUR>>
  /\ ticks = (2 :> TickData(Req_SPY)) @@ (4 :> TickData(Req_EUR))
  /\ tick_exchange = (2 :> Req_SPY.exchange) @@ (4 :> Req_EUR.exchange)
  /\ on_tick = <<>>
  /\ wpc = [w \in Workers |-> IF w = 1 THEN "while" ELSE "none"]
  /\ wreq = [w \in Workers |-> IF w = 1 THEN Req_EUR ELSE None]
  /\ calls = TrackingCalls
  /\ orders = <<>>
  /\ on_order = <<>>
  /\ ret = [op |-> "subscribe", kind |-> "return", value |-> <<>>]
  /\ contracts = ContractFile
  /\ shelf = ContractFile
  /\ history_req = None
  /\ history_buf = <<>>
  /\ history_reqid = 0
  /\ history_condition = [locked |-> FALSE, waiter |-> "none"]
  /\ notify_log = <<>>
  /\ hpc = "idle"
  /\ hreq = None
  /\ inbox = msgs
  /\ delivered = <<>>
  /\ host = Setting.host
  /\ port = Setting.port
  /\ clientid = Setting.clientid
  /\ account = Setting.account
  /\ count = 0
  /\ transport = T_connect(Setting)

\* the number of broker calls made before the scenario starts
Before == Len(TrackingCalls)

(***************************************************************************)
(* Reconnection: error 1101 and then nextValidId arrive at an established  *)
(* session while the workers run.                                          *)
(***************************************************************************)
RecvError ==
  /\ Next_is("error")
  /\ error(Head(inbox).reqId, Head(inbox).code)
  /\ TakeLogged

RecvNextValidId ==
  /\ Next_is("nextValidId")
  /\ FreeSlot
  /\ nextValidId(Head(inbox).reqId)
  /\ TakeLogged

InitReconnect == Tracking(<<M_error(0 - 1, 1101), M_nextValidId(1)>>)

NextReconnect ==
  \/ RecvError
  \/ RecvNextValidId
  \/ \E w \in Workers : Worker(w)

SpecReconnect == InitReconnect /\ [][NextReconnect]_vars

(***************************************************************************)
(* Orders: the caller sends and cancels orders while the connection and    *)
(* the readiness flags change.  The worker threads idle on an empty queue. *)
(***************************************************************************)
OrderRequest(symbol, exchange, type) ==
  [symbol |-> symbol, exchange |-> exchange, type |-> type,
   direction |-> "LONG", volume |-> 1, price |-> 2]

\* OrderType.FAK has no entry in ORDERTYPE_VT2IB
OrderReqs == {OrderRequest(Sym_SPY, "SMART", "LIMIT"),
              OrderRequest(Sym_SPY, "LOCAL", "LIMIT"),
              OrderRequest(Sym_SPY, "SMART", "FAK"),
              OrderRequest(Sym_Short, "SMART", "MARKET"),
              OrderRequest(Sym_BadStrike, "GLOBEX", "STOP")}

CancelReqs == {[orderid |-> 1, symbol |-> Sym_SPY, exchange |-> "SMART"]}

SendOrder ==
  \E req \in OrderReqs :
    /\ orderid < MaxOrderId
    /\ Len(calls) < MaxCalls
    /\ send_order(req)
    /\ UNCHANGED envVars

CancelOrder ==
  \E req \in CancelReqs :
    /\ Len(calls) < MaxCalls
    /\ cancel_order(req)
    /\ UNCHANGED envVars

HandshakeDone ==
  \E orderId \in 1..2 :
    /\ connected /\ inbox = <<>>
    /\ FreeSlot
    /\ nextValidId(orderId)
    /\ UNCHANGED envVars

ConnectivityError ==
  \E errorCode \in {1100, 1101, 1102} :
    /\ connected /\ inbox = <<>>
    /\ error(0 - 1, errorCode)
    /\ UNCHANGED envVars

WorkerIdle(w) ==
  /\ \/ W_while(w)
     \/ W_if_status(w)
     \/ W_if_ready(w)
     \/ W_get(w)
  /\ UNCHANGED envVars

NextOrder ==
  \/ SendOrder
  \/ CancelOrder
  \/ Connect
  \/ Close
  \/ ConnectAck
  \/ ConnectionClosed
  \/ HandshakeDone
  \/ ConnectivityError
  \/ \E w \in Workers : WorkerIdle(w)

SpecOrder == Init /\ [][NextOrder]_vars

(***************************************************************************)
(* Order tracking: openOrder and orderStatus callbacks at an established   *)
(* session.                                                                *)
(***************************************************************************)
OrderIds == {1, 2}
IbOrder(orderType, action) ==
  [orderType |-> orderType, action |-> action, totalQuantity |-> 1,
   lmtPrice |-> 2, auxPrice |-> 4]
IbOrders == {IbOrder("LMT", "BUY"), IbOrder("STP", "SELL")}
IbContract_SPY == generate_ib_contract(Sym_SPY, "SMART")
\* "XYZ-unknown" has no entry in STATUS_IB2VT
StatusStrings == {"Submitted", "XYZ-unknown", "Filled", "Cancelled"}

OpenOrder ==
  \E orderId \in OrderIds, ib_order \in IbOrders :
    /\ Len(delivered) < MaxEvents
    /\ openOrder(orderId, IbContract_SPY, ib_order)
    /\ delivered' = Append(delivered, M_openOrder(orderId))
    /\ UNCHANGED <<connected, inbox>>

OrderStatus ==
  \E orderId \in OrderIds, st \in StatusStrings, filled \in {0, 1} :
    /\ Len(delivered) < MaxEvents
    /\ orderStatus(orderId, st, filled)
    /\ delivered' = Append(delivered, M_orderStatus(orderId, st, filled))
    /\ UNCHANGED <<connected, inbox>>

InitEstablished == Tracking(<<>>)

NextTracker == OpenOrder \/ OrderStatus

SpecTracker == InitEstablished /\ [][NextTracker]_vars

(***************************************************************************)
(* Ticks: tickPrice and tickSize callbacks for the two subscribed          *)
(* instruments (2: Req_SPY on SMART, 4: Req_EUR on IDEALPRO) and for an    *)
(* id nobody subscribed.  Prices are counted in halves of a price unit.    *)
(***************************************************************************)
TickIds == {2, 4, 6}
\* BID, ASK and LAST prices; LAST_SIZE, and 13 (HIGH_13_WEEK) that the
\* adapter does not map
PriceTypes == {1, 2, 4}
SizeTypes == {5, 13}
Prices == {0, 2, 4}
Sizes == {7}

TickPrice ==
  \E reqId \in TickIds, tickType \in PriceTypes, price \in Prices :
    /\ Len(delivered) < MaxEvents
    /\ tickPrice(reqId, tickType, price)
    /\ delivered' = Append(delivered, M_tickPrice(reqId, tickType, price))
    /\ UNCHANGED <<connected, inbox>>

TickSize ==
  \E reqId \in TickIds, tickType \in SizeTypes, size \in Sizes :
    /\ Len(delivered) < MaxEvents
    /\ tickSize(reqId, tickType, size)
    /\ delivered' = Append(delivered, M_tickSize(reqId, tickType, size))
    /\ UNCHANGED <<connected, inbox>>

NextTick == TickPrice \/ TickSize

SpecTick == InitEstablished /\ [][NextTick]_vars

(***************************************************************************)
(* Historical queries: the caller thread inside query_history against the  *)
(* receive loop.  The broker answers a request with some bars, perhaps     *)
(* after the informational error 2174, and ends with historicalDataEnd,    *)
(* with error 162, or with both.                                           *)
(***************************************************************************)
HistReqs == {Req_SPY, Req_ES}

IbBar(i) == [date |-> i, volume |-> IF i % 2 = 0 THEN 0 - 1 ELSE 5]

Scripts(id) ==
  { info \o [i \in 1..k |-> M_historicalData(id, IbBar(i))] \o ending :
      info \in {<<>>, <<M_error(id, 2174)>>},
      k \in 0..MaxBars,
      ending \in {<<M_historicalDataEnd(id)>>,
                  <<M_error(id, 162)>>,
                  <<M_error(id, 162), M_historicalDataEnd(id)>>} }

Queries ==
  Cardinality({i \in 1..Len(calls) : calls[i].op = "reqHistoricalData"})

QueryBegin ==
  \E req \in HistReqs :
    /\ Queries < MaxQueries
    /\ Q_begin(req)
    /\ delivered' = <<>>
    /\ UNCHANGED <<connected, inbox>>

QuerySend ==
  \E script \in Scripts(reqid) :
    /\ Q_send
    /\ inbox' = inbox \o script
    /\ UNCHANGED <<connected, delivered>>

QueryStep ==
  /\ \/ Q_inc
     \/ Q_setid
     \/ Q_acquire
     \/ Q_wait
     \/ Q_wake
     \/ Q_release
     \/ Q_swap
     \/ Q_return
  /\ UNCHANGED envVars

RecvHistoricalData ==
  /\ Next_is("historicalData")
  /\ historicalData(Head(inbox).reqId, Head(inbox).bar)
  /\ TakeLogged

RecvHistoricalDataEnd ==
  /\ Next_is("historicalDataEnd")
  /\ historicalDataEnd(Head(inbox).reqId)
  /\ TakeLogged

NextHist ==
  \/ QueryBegin
  \/ QuerySend
  \/ QueryStep
  \/ RecvHistoricalData
  \/ RecvHistoricalDataEnd
  \/ RecvError

SpecHist == InitEstablished /\ [][NextHist]_vars

(***************************************************************************)
(* Outages: the connectivity errors 1100, 1101 and 1102 arrive at an       *)
(* established session while the workers run.                              *)
(***************************************************************************)
Outage ==
  \E errorCode \in {1100, 1101, 1102} :
    /\ Len(delivered) < MaxEvents
    /\ error(0 - 1, errorCode)
    /\ delivered' = Append(delivered, M_error(0 - 1, errorCode))
    /\ UNCHANGED <<connected, inbox>>

NextOutage ==
  \/ Outage
  \/ \E w \in Workers : Worker(w)

SpecOutage == InitEstablished /\ [][NextOutage]_vars

(***************************************************************************)
(* The symbol codec on the order path: send_order decodes the canonical    *)
(* symbol of the request into the contract of placeOrder, the broker       *)
(* reports the order with that contract, and openOrder encodes it into the *)
(* symbol of the order record.                                             *)
(***************************************************************************)
\* the well-formed canonical symbols of the module docstring, with an
\* option whose strike has a fraction
Sym_XAU == <<"XAUUSD", "USD", "CMDTY">>
Sym_SI == <<"SI", "202006", "1000", "USD", "FUT">>
Sym_FOP == <<"ES", "202006", "C", "2430", "50", "USD", "FOP">>
Sym_FOP_half == <<"ES", "202006", "P", "2430.5", "50", "USD", "FOP">>

WellFormed ==
  {[symbol |-> Sym_SPY, exchange |-> "SMART"],
   [symbol |-> Sym_EUR, exchange |-> "IDEALPRO"],
   [symbol |-> Sym_XAU, exchange |-> "SMART"],
   [symbol |-> Sym_ES, exchange |-> "GLOBEX"],
   [symbol |-> Sym_SI, exchange |-> "NYMEX"],
   [symbol |-> Sym_FOP, exchange |-> "GLOBEX"],
   [symbol |-> Sym_FOP_half, exchange |-> "GLOBEX"]}

PlaceOrder ==
  \E s \in WellFormed, type \in {"LIMIT", "MARKET"} :
    /\ orderid < MaxOrderId
    /\ send_order(OrderRequest(s.symbol, s.exchange, type))
    /\ UNCHANGED envVars

\* the contract a placeOrder call was given
Placed(call) == generate_ib_contract(call.req.symbol, call.req.exchange)

\* the broker reports a placed order, with its contract
Echo ==
  \E i \in 1..Len(calls), ib_order \in IbOrders :
    /\ calls[i].op = "placeOrder"
    /\ Len(delivered) < MaxEvents
    /\ openOrder(calls[i].id, Placed(calls[i]), ib_order)
    /\ delivered' = Append(delivered, M_openOrder(calls[i].id))
    /\ UNCHANGED <<connected, inbox>>

NextCodec == PlaceOrder \/ Echo

SpecCodec == InitEstablished /\ [][NextCodec]_vars

(***************************************************************************)
(* Sessions: the broker sends nextValidId once after connectAck and once   *)
(* in answer to each reqIds of send_order; the caller connects, places     *)
(* orders and closes, and the transport can be lost.                       *)
(***************************************************************************)
ConnectSession ==
  /\ inbox = <<>>
  /\ connect(Setting, TRUE)
  /\ inbox' = IF ~status THEN <<M_connectAck, M_nextValidId(1)>> ELSE inbox
  /\ UNCHANGED delivered

\* the broker answers reqIds with the next valid order id
PlaceAndAsk ==
  /\ orderid < MaxOrderId
  /\ Len(calls) < MaxCalls
  /\ send_order(OrderRequest(Sym_SPY, "SMART", "LIMIT"))
  /\ inbox' = IF calls' # calls
              THEN Append(inbox, M_nextValidId(orderid' + 1))
              ELSE inbox
  /\ UNCHANGED <<connected, delivered>>

HandleNextValidId ==
  /\ Next_is("nextValidId")
  /\ FreeSlot
  /\ nextValidId(Head(inbox).reqId)
  /\ Take

NextSession ==
  \/ ConnectSession
  \/ PlaceAndAsk
  \/ Close
  \/ ConnectAck
  \/ HandleNextValidId
  \/ ConnectionClosed
  \/ \E w \in Workers : WorkerIdle(w)

SpecSession == Init /\ [][NextSession]_vars

(***************************************************************************)
(* The link: the caller connects with any setting and closes, the timer    *)
(* runs once the gateway has connected, and the transport can be lost with *)
(* or without a connectionClosed callback.                                 *)
(***************************************************************************)
ConnectAny ==
  \E setting \in Settings, accepted \in BOOLEAN :
    /\ inbox = <<>>
    /\ connect(setting, accepted)
    /\ inbox' = IF ~status /\ accepted THEN <<M_connectAck>> ELSE inbox
    /\ UNCHANGED delivered

\* the transport is lost and no connectionClosed callback has been made
Lost ==
  /\ connected
  /\ connected' = FALSE
  /\ inbox' = <<>>
  /\ UNCHANGED <<connVars, idVars, subVars, tickVars, workerVars, calls,
                 orderVars, ret, contractVars, linkVars, histVars,
                 callerVars, delivered>>

\* EVENT_TIMER, registered by IbGateway.connect after the first api.connect;
\* a reconnection the socket accepts is answered with connectAck
Timer ==
  \E accepted \in BOOLEAN :
    /\ host # ""
    /\ process_timer_event(accepted)
    /\ inbox' = IF ~connected /\ connected' THEN <<M_connectAck>> ELSE inbox
    /\ UNCHANGED delivered

NextLink ==
  \/ ConnectAny
  \/ Close
  \/ ConnectAck
  \/ ConnectionClosed
  \/ Lost
  \/ Timer

SpecLink == Init /\ [][NextLink]_vars

(***************************************************************************)
(* Placed orders: the caller places orders at an established session and   *)
(* the broker reports them with openOrder and orderStatus, in any order.   *)
(***************************************************************************)
PlaceSPY ==
  \E type \in {"LIMIT", "MARKET"} :
    /\ orderid < MaxOrderId
    /\ send_order(OrderRequest(Sym_SPY, "SMART", type))
    /\ UNCHANGED envVars

\* the ids of the placeOrder calls
PlacedIds ==
  {calls[i].id : i \in {j \in 1..Len(calls) : calls[j].op = "placeOrder"}}

OpenPlaced ==
  \E orderId \in PlacedIds :
    /\ Len(delivered) < MaxEvents
    /\ openOrder(orderId, IbContract_SPY, IbOrder("LMT", "BUY"))
    /\ delivered' = Append(delivered, M_openOrder(orderId))
    /\ UNCHANGED <<connected, inbox>>

StatusPlaced ==
  \E orderId \in PlacedIds, st \in {"Submitted", "Filled"}, filled \in {0, 1} :
    /\ Len(delivered) < MaxEvents
    /\ orderStatus(orderId, st, filled)
    /\ delivered' = Append(delivered, M_orderStatus(orderId, st, filled))
    /\ UNCHANGED <<connected, inbox>>

NextPlaced == PlaceSPY \/ OpenPlaced \/ StatusPlaced

SpecPlaced == InitEstablished /\ [][NextPlaced]_vars

(***************************************************************************)
(* Order ids: sessions are opened and closed, and at each handshake the    *)
(* broker reports a next valid id above every id it was given, which may   *)
(* be above the adapter's counter when ids were used outside this process. *)
(***************************************************************************)
ConnectIds ==
  \E n \in 1..MaxOrderId :
    /\ inbox = <<>>
    /\ Len(delivered) < MaxEvents
    /\ \A id \in PlacedIds : n > id
    /\ connect(Setting, TRUE)
    /\ inbox' = IF ~status THEN <<M_connectAck, M_nextValidId(n)>> ELSE inbox
    /\ UNCHANGED delivered

NextIds ==
  \/ ConnectIds
  \/ PlaceAndAsk
  \/ Close
  \/ ConnectAck
  \/ RecvNextValidId
  \/ ConnectionClosed
  \/ \E w \in Workers : WorkerIdle(w)

SpecIds == Init /\ [][NextIds]_vars

(***************************************************************************)
(* One session without reconnection: the caller subscribes, repeats        *)
(* subscriptions and places orders; the broker answers the handshake and   *)
(* each reqIds with nextValidId.                                           *)
(***************************************************************************)
SubscribeSPY ==
  /\ nenq < MaxEnqueue
  /\ subscribe(Req_SPY)
  /\ UNCHANGED envVars

AnswerIds ==
  /\ Next_is("nextValidId")
  /\ FreeSlot
  /\ nenq + Len(subscribed) <= MaxEnqueue
  /\ nextValidId(Head(inbox).reqId)
  /\ Take

NextDedup ==
  \/ ConnectSession
  \/ ConnectAck
  \/ AnswerIds
  \/ SubscribeSPY
  \/ PlaceAndAsk
  \/ \E w \in Workers : Worker(w)

SpecDedup == Init /\ [][NextDedup]_vars

(***************************************************************************)
(* Request ids: a caller thread inside query_history runs against the      *)
(* subscription worker, which serves one more subscription; both take      *)
(* their request ids from self.reqid.                                      *)
(***************************************************************************)
SubscribeES ==
  /\ nenq <= MaxEnqueue
  /\ subscribe(Req_ES)
  /\ UNCHANGED envVars

QueryOne ==
  /\ Queries = 0
  /\ Q_begin(Req_SPY)
  /\ delivered' = <<>>
  /\ UNCHANGED <<connected, inbox>>

\* the broker has no bars and answers with historicalDataEnd
QuerySendEmpty ==
  /\ Q_send
  /\ inbox' = Append(inbox, M_historicalDataEnd(reqid))
  /\ UNCHANGED <<connected, delivered>>

NextRace ==
  \/ SubscribeES
  \/ QueryOne
  \/ QuerySendEmpty
  \/ QueryStep
  \/ RecvHistoricalDataEnd
  \/ \E w \in Workers : Worker(w)

SpecRace == InitEstablished /\ [][NextRace]_vars

(***************************************************************************)
(* Shutdown: sessions are opened and closed and connectivity errors come   *)
(* in while the scheduler keeps running every worker thread.               *)
(***************************************************************************)
NextStop ==
  \/ ConnectSession
  \/ ConnectAck
  \/ AnswerIds
  \/ SubscribeSPY
  \/ Close
  \/ ConnectionClosed
  \/ Error
  \/ \E w \in Workers : Worker(w)

SpecStop ==
  Init /\ [][NextStop]_vars /\ \A w \in Workers : WF_vars(Worker(w))

(***************************************************************************)
(* Every operation modelled, from construction.                            *)
(***************************************************************************)
Next ==
  \/ NextSub
  \/ NextOrder
  \/ NextReconnect
  \/ NextTracker
  \/ NextTick
  \/ NextHist
  \/ NextOutage
  \/ NextCodec
  \/ NextSession
  \/ NextLink
  \/ NextPlaced
  \/ NextIds
  \/ NextDedup
  \/ NextRace
  \/ NextStop

Spec == Init /\ [][Next]_vars

(***************************************************************************)
(* Properties.                                                             *)
(***************************************************************************)
\* the callback a step has just handled, in the scenarios that record them
Stepped == Len(delivered') = Len(delivered) + 1
Just == delivered'[Len(delivered')]

Max(S) == CHOOSE x \in S : \A y \in S : y <= x

\* C1: a send_order or cancel_order called while status or order_ready is
\* false issues no broker request (calls is unchanged), emits no order
\* event, leaves the orderid counter alone and returns the empty value.
C1_GatedOrders ==
  [][((~status \/ ~order_ready)
        /\ (\/ \E req \in OrderReqs : send_order(req)
            \/ \E req \in CancelReqs : cancel_order(req)))
       => /\ calls' = calls
          /\ on_order' = on_order
          /\ orderid' = orderid
          /\ ret'.value = <<>>]_vars

\* send_order has been refused on a connection whose handshake is not done
C1_Witness ==
  /\ ret.op = "send_order"
  /\ ret.value = <<>>
  /\ status /\ ~order_ready
  /\ orderid = 0
  /\ calls = <<>>

\* C2: whenever a worker takes a request off the queue, or issues
\* reqContractDetails or reqMktData, data_ready is true in the state it
\* does so.
C2_WorkerGated ==
  [][(\E w \in Workers :
         \/ W_get(w) /\ subscribeRequest_queue # <<>>
         \/ W_reqCD(w)
         \/ W_reqMD(w))
       => data_ready]_vars

InQueue(req) ==
  \E i \in 1..Len(subscribeRequest_queue) : subscribeRequest_queue[i] = req

MktDataIssued(req) ==
  \E i \in 1..Len(calls) : calls[i].op = "reqMktData" /\ calls[i].req = req

\* C3: a valid request that is not tracked and sits in the queue when the
\* handshake has set data_ready (status staying true) is eventually given
\* its reqMktData by a fairly scheduled worker.
C3_QueuedProcessed ==
  (InQueue(Req_SPY) /\ ~InSubscribed(subscribed, Req_SPY) /\ status
     /\ data_ready)
    ~> MktDataIssued(Req_SPY)

\* query_history has returned to its caller
Returned == hpc = "idle" /\ ret.op = "query_history" /\ ret.kind = "return"

\* the latest reqHistoricalData call
LastQuery ==
  calls[Max({i \in 1..Len(calls) : calls[i].op = "reqHistoricalData"})]

\* the callbacks d are some historicalData and then one historicalDataEnd,
\* all of them answers to request id
BarsThenEnd(d, id) ==
  /\ Len(d) >= 1
  /\ d[Len(d)].cb = "historicalDataEnd"
  /\ \A i \in 1..(Len(d) - 1) : d[i].cb = "historicalData"
  /\ \A i \in 1..Len(d) : d[i].reqId = id

\* C4: when query_history returns and the callbacks handled since it was
\* entered are N historicalData followed by one historicalDataEnd for its
\* request, it returns the N bars in arrival order, history_buf is empty
\* and history_req is None; this holds of the first query and of every
\* later one.
C4_ExactBars ==
  (Returned /\ BarsThenEnd(delivered, LastQuery.id))
    => /\ ret.value = [i \in 1..(Len(delivered) - 1) |->
                         BarData(LastQuery.req, delivered[i].bar)]
       /\ history_buf = <<>>
       /\ history_req = None

\* a callback that completes the historical request in flight
Completion(m) ==
  /\ m.reqId = history_reqid
  /\ \/ m.cb = "historicalDataEnd"
     \/ m.cb = "error" /\ m.code \notin 2000..2999

\* C5: no completion signal is lost: while the caller is blocked in wait()
\* and not notified, a completion of its request is still on its way, so
\* the call eventually returns.
C5_SignalKept ==
  (hpc = "waiting" /\ history_condition.waiter = "waiting")
    => \E i \in 1..Len(inbox) : Completion(inbox[i])

IssuedIds ==
  {calls[i].id : i \in {j \in 1..Len(calls) :
                          calls[j].op = "reqHistoricalData"}}

Notifies(q) ==
  Cardinality({i \in 1..Len(notify_log) : notify_log[i] = q})

\* C6: the notify operations of a historical query are never two, and are
\* exactly one once every callback the broker sent for it has been handled.
C6_ExactlyOnce ==
  \A q \in IssuedIds :
    /\ Notifies(q) <= 1
    /\ (\A i \in 1..Len(inbox) : inbox[i].reqId # q) => Notifies(q) = 1

\* C7: when query_history returns after an error callback with the id of
\* the request in flight was handled while it was blocked, it returns the
\* empty list.
C7_EmptyOnError ==
  (Returned
     /\ \E i \in 1..Len(delivered) :
          /\ delivered[i].cb = "error"
          /\ delivered[i].reqId = history_reqid
          /\ delivered[i].code \notin 2000..2999
          /\ delivered[i].at = "waiting")
    => ret.value = <<>>

TickFields == {TICKFIELD_IB2VT[t] : t \in DOMAIN TICKFIELD_IB2VT}

\* the callbacks of log that wrote a field of an instrument's tick
Updates(log, id, field) ==
  {i \in 1..Len(log) :
     /\ log[i].cb \in {"tickPrice", "tickSize"}
     /\ log[i].reqId = id
     /\ log[i].code \in DOMAIN TICKFIELD_IB2VT
     /\ TICKFIELD_IB2VT[log[i].code] = field}

\* the value the latest of them delivered (0, the constructor's value, when
\* there is none)
Latest(log, id, field) ==
  IF Updates(log, id, field) = {} THEN 0
  ELSE log[Max(Updates(log, id, field))].n

Recognized(m) ==
  m.reqId \in DOMAIN ticks /\ m.code \in DOMAIN TICKFIELD_IB2VT

\* the instruments whose last price tickPrice computes
Synthetic(id) ==
  \/ tick_exchange[id] = "IDEALPRO"
  \/ \E i \in 1..Len(ticks[id].symbol) : ticks[id].symbol[i] = "CMDTY"

\* what a callback does to the emitted ticks: tickPrice emits nothing, a
\* recognized tickSize emits one snapshot that carries, in each field of
\* fields(id) some callback updated, the latest value delivered for it
Emission(fields(_)) ==
  Stepped =>
    /\ Just.cb = "tickPrice" => on_tick' = on_tick
    /\ (Just.cb = "tickSize" /\ ~Recognized(Just)) => on_tick' = on_tick
    /\ (Just.cb = "tickSize" /\ Recognized(Just)) =>
         /\ Len(on_tick') = Len(on_tick) + 1
         /\ \A i \in 1..Len(on_tick) : on_tick'[i] = on_tick[i]
         /\ \A f \in fields(Just.reqId) :
              Updates(delivered', Just.reqId, f) # {}
                => on_tick'[Len(on_tick')][f]
                     = Latest(delivered', Just.reqId, f)

AllFields(id) == TickFields
RealFields(id) ==
  IF Synthetic(id) THEN TickFields \ {"last_price"} ELSE TickFields

\* C8 as stated: tickPrice never emits, and each recognized tickSize emits
\* exactly one snapshot carrying the latest value of every field updated
\* before it.
C8_CarriesAll == [][Emission(AllFields)]_vars

\* C8: tickPrice never emits, and each recognized tickSize emits exactly one
\* snapshot carrying the latest value delivered for every field, except
\* last_price on an IDEALPRO or CMDTY instrument, which is the midpoint of
\* bid and ask whenever both are non-zero.
C8_Emission ==
  [][/\ Emission(RealFields)
     /\ (Stepped /\ Just.cb = "tickSize" /\ Recognized(Just)
           /\ Synthetic(Just.reqId))
          => LET snap == on_tick'[Len(on_tick')]
             IN  (snap.bid_price_1 # 0 /\ snap.ask_price_1 # 0)
                   => snap.last_price = Midpoint(snap.bid_price_1,
                                                 snap.ask_price_1)]_vars

\* a snapshot of the IDEALPRO instrument emitted after bid, ask and last
\* prices: it carries the size and the midpoint, not the last price delivered
C8_Witness ==
  /\ Len(on_tick) = 1
  /\ on_tick[1].last_volume = 7
  /\ on_tick[1].bid_price_1 = 2
  /\ on_tick[1].ask_price_1 = 4
  /\ on_tick[1].last_price = 3
  /\ Latest(delivered, 4, "last_price") = 2

\* the callbacks handled end with orderStatus "Submitted", an unmapped
\* string and "Filled" for an order that openOrder recorded before them
SubmittedUnknownFilled(id) ==
  LET n == Len(delivered)
  IN  /\ n >= 4
      /\ \E j \in 1..(n - 3) :
           delivered[j].cb = "openOrder" /\ delivered[j].reqId = id
      /\ \A j \in (n - 2)..n :
           delivered[j].cb = "orderStatus" /\ delivered[j].reqId = id
      /\ delivered[n - 2].st = "Submitted"
      /\ delivered[n - 1].st \notin DOMAIN STATUS_IB2VT
      /\ delivered[n].st = "Filled"

\* C9: an orderStatus for a recorded order sets the mapped status, and
\* leaves the status as it was when the string has no mapping; the events
\* of "Submitted", an unmapped string and "Filled" carry NOTTRADED,
\* NOTTRADED and ALLTRADED, and the record ends ALLTRADED.
C9_UnmappedKeeps ==
  /\ [][(Stepped /\ Just.cb = "orderStatus"
           /\ Just.reqId \in DOMAIN orders)
          => /\ orders'[Just.reqId].status =
                  IF Just.st \in DOMAIN STATUS_IB2VT
                  THEN STATUS_IB2VT[Just.st]
                  ELSE orders[Just.reqId].status
             /\ on_order' = Append(on_order, orders'[Just.reqId])]_vars
  /\ [](\A id \in OrderIds :
          SubmittedUnknownFilled(id)
            => LET k == Len(on_order)
               IN  /\ k >= 3
                   /\ on_order[k - 2].status = "NOTTRADED"
                   /\ on_order[k - 1].status = "NOTTRADED"
                   /\ on_order[k].status = "ALLTRADED"
                   /\ orders[id].status = "ALLTRADED")

C9_Witness == SubmittedUnknownFilled(1) /\ orders[1].status = "ALLTRADED"

\* the reqMktData calls made since the reconnection scenario started
NewMktData ==
  {i \in (Before + 1)..Len(calls) : calls[i].op = "reqMktData"}

\* both callbacks handled, the queue drained and every worker between two
\* requests
Settled ==
  /\ inbox = <<>>
  /\ subscribeRequest_queue = <<>>
  /\ \A w \in Workers :
       wpc[w] \in {"none", "while", "if_status", "if_ready", "get"}

\* C10: after error 1101 and nextValidId at a session with two tracked
\* subscriptions no symbol is requested twice, and once the workers have
\* drained the queue exactly two reqMktData were made, one per symbol.
C10_TwoRequests ==
  /\ \A i, j \in NewMktData : calls[i].req = calls[j].req => i = j
  /\ Settled =>
       /\ Cardinality(NewMktData) = 2
       /\ \A req \in {Req_SPY, Req_EUR} :
            \E i \in NewMktData : calls[i].req = req

\* C11: an error 1102 sets order_ready and data_ready and leaves the tracked
\* set, the queue, the tick records, the request-id counter and the broker
\* calls as they were; as long as no error 1101 was delivered, the workers
\* issue no request either.
C11_Restored ==
  /\ [][(Stepped /\ Just.cb = "error" /\ Just.code = 1102)
          => /\ order_ready' /\ data_ready'
             /\ UNCHANGED <<subscribed, subscribeRequest_queue, nenq, ticks,
                            tick_exchange, reqid, calls>>]_vars
  /\ []((\A i \in 1..Len(delivered) : delivered[i].code # 1101)
          => /\ calls = TrackingCalls
             /\ subscribed = <<Req_SPY, Req_EUR>>
             /\ subscribeRequest_queue = <<>>)

\* error 1100 and then error 1102 were handled with two subscriptions tracked
C11_Witness ==
  /\ Len(delivered) = 2
  /\ delivered[1].code = 1100
  /\ delivered[2].code = 1102
  /\ order_ready /\ data_ready
  /\ Len(subscribed) = 2
  /\ calls = TrackingCalls

\* the fields of a contract its canonical symbol carries
Carried(c) ==
  {"symbol", "currency", "secType"}
    \cup (IF c.secType \in {"FUT", "OPT", "FOP"}
          THEN {"lastTradeDateOrContractMonth"} ELSE {})
    \cup (IF c.secType \in {"OPT", "FOP"}
          THEN {"right", "strike", "multiplier"} ELSE {})

\* C12: for every order the broker reported with the contract c that
\* send_order decoded from the symbol s, decoding generate_symbol(c) gives
\* back every field of c the symbol carries, and generate_symbol(c), the
\* symbol of the order record, is s.
C12_RoundTrip ==
  \A i \in 1..Len(calls) :
    (calls[i].op = "placeOrder" /\ calls[i].id \in DOMAIN orders)
      => LET c == Placed(calls[i])
             d == generate_ib_contract(generate_symbol(c),
                                       calls[i].req.exchange)
         IN  /\ d.tag = "contract"
             /\ \A f \in Carried(c) : d[f] = c[f]
             /\ orders[calls[i].id].symbol = calls[i].req.symbol

Alive == {w \in Workers : wpc[w] # "none"}

\* C13: at most one subscribeRunner thread is alive at any time.
C13_OneWorker == Cardinality(Alive) <= 1

\* C14: no call of the caller thread ends by raising, and query_history for
\* a symbol with no entry in contracts returns the empty list and issues no
\* broker request.
C14_NoException ==
  /\ [](ret.kind # "raise")
  /\ [][\A req \in HistReqs :
          (Q_begin(req) /\ vt_symbol(req) \notin DOMAIN contracts)
            => /\ ret'.op = "query_history"
               /\ ret'.kind = "return"
               /\ ret'.value = <<>>
               /\ calls' = calls]_vars

\* every field of the adapter and the gateway, and the state of the
\* transport
Fields ==
  <<connVars, idVars, subVars, tickVars, workerVars, calls, orderVars,
    contractVars, settingVars, count, histVars, callerVars, connected>>

\* C15: a connect called while status is true calls neither client.connect
\* nor Thread.start and leaves host, port, clientid, account and every
\* other field as they were, whatever setting it is given.
C15_ConnectNoop ==
  [][(status /\ \E setting \in Settings, accepted \in BOOLEAN :
                  connect(setting, accepted))
       => /\ transport' = <<>>
          /\ UNCHANGED Fields]_vars

\* connect has returned on a connected adapter without a call on the
\* transport, the setting of the first connect still in place
C15_Witness ==
  /\ ret.op = "connect"
  /\ status
  /\ transport = <<>>
  /\ host # ""

\* C16: a close called while status is true calls client.disconnect once
\* and sets status false; a close called while status is false makes no
\* call on the transport and changes no field, so a second close in a row
\* adds nothing to the first.
C16_CloseIdempotent ==
  [][close
       => IF status
          THEN /\ transport' = T_disconnect
               /\ ~status'
               /\ ~connected'
               /\ UNCHANGED <<order_ready, data_ready, idVars, subVars,
                              tickVars, workerVars, calls, orderVars,
                              contractVars, settingVars, count, histVars,
                              callerVars>>
          ELSE /\ transport' = <<>>
               /\ UNCHANGED Fields]_vars

\* close has returned without a call on the transport, on an adapter that
\* had been connected and is disconnected
C16_Witness ==
  /\ ret.op = "close"
  /\ transport = <<>>
  /\ ~status
  /\ ~connected
  /\ contracts # <<>>

\* the setting in use
LastUsed == [host |-> host, port |-> port, clientid |-> clientid]

\* C17: a timer event that is not the tenth since the last check only
\* counts; the tenth resets the count and runs the check, which changes
\* nothing when the transport is connected, and otherwise sets status
\* false, calling client.disconnect if it was true, calls client.connect
\* with the host, port and clientid last used and starts a receive loop.
C17_HealthCheck ==
  [][(\E accepted \in BOOLEAN : process_timer_event(accepted))
       => /\ UNCHANGED <<order_ready, data_ready, idVars, subVars, tickVars,
                         workerVars, calls, orderVars, contractVars,
                         settingVars, histVars, callerVars>>
          /\ IF count # 9
             THEN /\ count' = count + 1
                  /\ transport' = <<>>
                  /\ UNCHANGED <<status, connected>>
             ELSE /\ count' = 0
                  /\ IF connected
                     THEN /\ transport' = <<>>
                          /\ UNCHANGED <<status, connected>>
                     ELSE /\ ~status'
                          /\ transport' =
                               (IF status THEN T_disconnect ELSE <<>>)
                                 \o T_connect(LastUsed)]_vars

\* the check has found the transport lost under a session with status true:
\* it has disconnected and connected again with the second client id
C17_Witness ==
  /\ count = 0
  /\ transport = T_disconnect \o T_connect(LastUsed)
  /\ clientid = 2
  /\ ~status
  /\ connected

\* C18: connectAck leaves status true and order_ready and data_ready false;
\* order_ready becomes true again only by nextValidId, error 1101 or
\* error 1102, and until then send_order and cancel_order issue no request,
\* emit no order event and return the empty value.
C18_AckResets ==
  /\ [][connectAck => (status' /\ ~order_ready' /\ ~data_ready')]_vars
  /\ [][(~order_ready /\ order_ready')
          => \/ \E orderId \in 1..MaxOrderId : nextValidId(orderId)
             \/ error(0 - 1, 1101)
             \/ error(0 - 1, 1102)]_vars
  /\ [][(~order_ready
           /\ (\/ \E req \in OrderReqs : send_order(req)
               \/ \E req \in CancelReqs : cancel_order(req)))
          => /\ calls' = calls
             /\ on_order' = on_order
             /\ ret'.value = <<>>]_vars

\* send_order has been refused after the connectAck of a second session:
\* an order id was assigned in an earlier session, whose worker has ended,
\* and no handshake has been completed in this one
C18_Witness ==
  /\ status
  /\ ~order_ready
  /\ ~data_ready
  /\ orderid # 0
  /\ \A w \in Workers : wpc[w] = "none"
  /\ ret.op = "send_order"
  /\ ret.value = <<>>

\* C19: an openOrder for an order id that has a record leaves the status
\* and the traded quantity of the record as they are.
C19_OpenOrderKeeps ==
  [][(Stepped /\ Just.cb = "openOrder" /\ Just.reqId \in DOMAIN orders)
       => /\ orders'[Just.reqId].status = orders[Just.reqId].status
          /\ orders'[Just.reqId].traded = orders[Just.reqId].traded]_vars

\* C20: an orderStatus for an order id that has no record emits no order
\* event, creates no record and changes no field.
C20_UnknownDropped ==
  [][(Stepped /\ Just.cb = "orderStatus" /\ Just.reqId \notin DOMAIN orders)
       => /\ on_order' = on_order
          /\ orders' = orders
          /\ UNCHANGED Fields]_vars

\* an orderStatus "Filled" for order 2 has been handled while only order 1
\* has a record: nothing was emitted
C20_Witness ==
  /\ Len(delivered) = 2
  /\ delivered[1].cb = "openOrder" /\ delivered[1].reqId = 1
  /\ delivered[2].cb = "orderStatus" /\ delivered[2].reqId = 2
  /\ delivered[2].st = "Filled"
  /\ DOMAIN orders = {1}
  /\ on_order = <<>>

\* C21: when send_order has returned an order id, orders holds a record
\* under that id, with status SUBMITTING as long as no callback for the
\* order was handled; and an orderStatus for a placed order is applied: it
\* emits the record with the status it carries.
C21_RecordOnSend ==
  /\ []((ret.op = "send_order" /\ ret.kind = "return" /\ ret.value # <<>>)
          => /\ ret.value[2] \in DOMAIN orders
             /\ (\A i \in 1..Len(delivered) :
                   delivered[i].reqId # ret.value[2])
                  => orders[ret.value[2]].status = "SUBMITTING")
  /\ [][(Stepped /\ Just.cb = "orderStatus" /\ Just.reqId \in PlacedIds)
          => /\ Len(on_order') = Len(on_order) + 1
             /\ on_order'[Len(on_order')].status = STATUS_IB2VT[Just.st]]_vars

\* the next valid id the broker reported last (0 before the first report)
Reported ==
  LET ids == {i \in 1..Len(delivered) : delivered[i].cb = "nextValidId"}
  IN  IF ids = {} THEN 0 ELSE delivered[Max(ids)].reqId

\* C22: the id of every placeOrder call is not below the next valid id the
\* broker reported last, and was not the id of a placeOrder call before.
C22_FreshOrderIds ==
  [][(Len(calls') > Len(calls) /\ calls'[Len(calls) + 1].op = "placeOrder")
       => /\ calls'[Len(calls) + 1].id >= Reported
          /\ calls'[Len(calls) + 1].id \notin PlacedIds]_vars

Terminal == {"ALLTRADED", "CANCELLED", "REJECTED"}

\* C23: a record that has reached ALLTRADED, CANCELLED or REJECTED is never
\* moved back to SUBMITTING or NOTTRADED by a later callback.
C23_StatusMonotonic ==
  [][\A id \in DOMAIN orders :
       orders[id].status \in Terminal
         => /\ id \in DOMAIN orders'
            /\ orders'[id].status \notin {"SUBMITTING", "NOTTRADED"}]_vars

\* C24: in a session without reconnection no two reqMktData calls and no
\* two reqContractDetails calls are made for the same vt_symbol.
C24_Deduplicated ==
  \A i, j \in 1..Len(calls) :
    (/\ i < j
     /\ calls[i].op \in {"reqMktData", "reqContractDetails"}
     /\ calls[i].op = calls[j].op)
      => vt_symbol(calls[i].req) # vt_symbol(calls[j].req)

\* C25: no two keys of the tick table hold records of the same vt_symbol.
C25_OneTickRecord ==
  \A a, b \in DOMAIN ticks :
    a # b => <<ticks[a].symbol, ticks[a].exchange>>
               # <<ticks[b].symbol, ticks[b].exchange>>

\* a request that passes the validation of the worker
Valid(req) ==
  /\ req.exchange \in DOMAIN EXCHANGE_VT2IB
  /\ generate_ib_contract(req.symbol, req.exchange).tag = "contract"

\* C26: a request with an unsupported exchange or a symbol that does not
\* decode is never in the tracked set, and a resubscription (error 1101 or
\* nextValidId) puts no such request back into the queue.
C26_DroppedNotRetried ==
  /\ [](\A i \in 1..Len(subscribed) : Valid(subscribed[i]))
  /\ [][(subscribed # <<>> /\ subscribed' = <<>>)
          => \A i \in 1..Len(subscribeRequest_queue') :
               i > Len(subscribeRequest_queue)
                 => Valid(subscribeRequest_queue'[i])]_vars

\* the requests whose symbol has too few fields (Req_Short) or a strike
\* that is no number (Req_BadStrike)
Malformed == {Req_Short, Req_BadStrike}

\* C27: when a worker decodes a malformed symbol, generate_ib_contract
\* returns no contract and raises nothing, and the worker goes back to the
\* head of its loop.
C27_MalformedRejected ==
  [][\A w \in Workers :
       (wpc[w] = "track" /\ wreq[w] \in Malformed /\ wpc'[w] # "track")
         => /\ generate_ib_contract(wreq[w].symbol, wreq[w].exchange)
                 = NoContract
            /\ wpc'[w] = "while"]_vars

\* C28: no two of the reqContractDetails, reqMktData and reqHistoricalData
\* calls carry the same request id, and while a historical request is in
\* flight its id is no key of the tick table.
C28_FreshRequestIds ==
  /\ \A i, j \in 1..Len(calls) :
       (/\ i < j
        /\ {calls[i].op, calls[j].op}
             \subseteq {"reqContractDetails", "reqMktData",
                        "reqHistoricalData"})
         => calls[i].id # calls[j].id
  /\ hpc \in {"acquire", "wait", "waiting"} => history_reqid \notin DOMAIN ticks

\* C29: from a state where status is false, every worker terminates unless
\* status becomes true again first.
C29_WorkersTerminate ==
  \A w \in Workers : ~status ~> (status \/ wpc[w] = "none")

\* the session was closed during an outage with a request in the queue, and
\* the workers have terminated
C29_Witness ==
  /\ orderid # 0
  /\ ~status
  /\ ~data_ready
  /\ subscribeRequest_queue # <<>>
  /\ \A w \in Workers : wpc[w] = "none"

\* C30: when query_history returns, a historicalDataEnd or a matching
\* error of its own request has been handled since it was entered, and
\* every bar it returns came in a historicalData of its own request handled
\* since then.
C30_OwnCompletion ==
  Returned
    => /\ \E i \in 1..Len(delivered) :
            /\ delivered[i].reqId = LastQuery.id
            /\ \/ delivered[i].cb = "historicalDataEnd"
               \/ delivered[i].cb = "error"
                    /\ delivered[i].code \notin 2000..2999
       /\ \A k \in 1..Len(ret.value) :
            \E i \in 1..Len(delivered) :
              /\ delivered[i].cb = "historicalData"
              /\ delivered[i].reqId = LastQuery.id
              /\ ret.value[k] = BarData(LastQuery.req, delivered[i].bar)

\* C31: handling the nextValidId that answers the reqIds of send_order
\* leaves the tracked set, the queue and the tick table as they are and
\* starts no worker.
C31_OrderKeepsSubscriptions ==
  [][(Next_is("nextValidId") /\ inbox' = Tail(inbox) /\ PlacedIds # {})
       => /\ subscribed' = subscribed
          /\ subscribeRequest_queue' = subscribeRequest_queue
          /\ ticks' = ticks
          /\ wpc' = wpc]_vars

====
